---- MODULE Spec2Model ----
(***************************************************************************)
(* Model of main.py: the virtual receptionist of a dental clinic.          *)
(*                                                                         *)
(* State: the three tables (pacientes, agendamentos, historico_conversas), *)
(* the wall clock, and `last`, the observable record of the most recent    *)
(* HTTP request (its inputs, its response and what it did).  `tarefas` are  *)
(* the handlers in flight, for the runs that follow them from one await to *)
(* the next; the other runs take a handler as one step and leave it empty. *)
(*                                                                         *)
(* Time is counted in minutes since the Monday 00:00 UTC of week 0; every  *)
(* instant inside one minute behaves alike in the code (strftime("%H:%M")  *)
(* drops the seconds, the day window ends at 23:59:59.999999).             *)
(* Optional values are tuples: <<>> is None, <<x>> is the value x.         *)
(* Message contents that no branch of the code reads are kept as tags.     *)
(***************************************************************************)
EXTENDS Integers, Sequences, FiniteSets, TLC

VARIABLES now, pacientes, agendamentos, historico_conversas, last, tarefas

vars == <<now, pacientes, agendamentos, historico_conversas, last, tarefas>>

None == <<>>
Some(x) == <<x>>
Val(o) == o[1]

\* Com(x, LAMBDA v : e) is e with v bound to x (x is written once).
Com(x, Op(_)) == Op(x)

MinDia == 24 * 60

(***************************************************************************)
(* Clock and time zone (SAO_PAULO_TZ, pytz).                               *)
(***************************************************************************)
\* Start and end (UTC minutes) of the one daylight-saving period of the
\* modelled time line: local 00:00 of Sunday 6 jumps to 01:00, and local
\* 00:00 (DST) of Sunday 13 falls back to Saturday 23:00.
DstInicioUtc == 6 * MinDia + 180
DstFimUtc == 13 * MinDia + 120

\* Minutes the clinic's wall clock is behind UTC at a UTC instant.
OffsetAt(utc) == IF DstInicioUtc <= utc /\ utc < DstFimUtc THEN 120 ELSE 180

\* dt.astimezone(SAO_PAULO_TZ): local wall-clock minutes of a UTC instant.
ParaLocal(utc) == utc - OffsetAt(utc)

\* SAO_PAULO_TZ.localize(naive).astimezone(utc) with pytz's default
\* is_dst=False: the standard offset when the wall time exists in standard
\* time or does not exist at all, the DST offset when only that one fits.
Localize(loc) ==
  IF OffsetAt(loc + 180) = 180 THEN loc + 180
  ELSE IF OffsetAt(loc + 120) = 120 THEN loc + 120
  ELSE loc + 180

DiaDe(m) == m \div MinDia
MinutoDe(m) == m % MinDia

\* A week that starts on Sunday.
Weekday_domingo(d) == (d + 1) % 7

\* date.weekday(): 0 is Monday, 5 Saturday, 6 Sunday.
Weekday(d) == d % 7

\* datetime.now(SAO_PAULO_TZ).date()
HojeSP(t) == DiaDe(ParaLocal(t))

(***************************************************************************)
(* Tables.                                                                 *)
(***************************************************************************)
\* uuid.uuid4(): an id no row of the table holds.
NovoId(tabela) == Cardinality(tabela) + 1

PacientePorTelefone(pac, telefone) == {r \in pac : r.telefone = telefone}

\* The insert without the unique index on telefone.
InsertPacienteOk_sem_unique(pac, row) == row.nome # None

\* pacientes.insert(): telefone is unique, nome is NOT NULL.
InsertPacienteOk(pac, row) ==
  /\ row.nome # None
  /\ PacientePorTelefone(pac, row.telefone) = {}

\* An insert that refuses a second row of the same instant.
InsertAgendamentoOk_sem_repetir(pac, row) ==
  /\ row.procedimento # None
  /\ \E r \in pac : r.id = row.paciente_id
  /\ \A a \in agendamentos : a.data_hora # row.data_hora

\* agendamentos.insert(): procedimento is NOT NULL, paciente_id references
\* pacientes.id.
InsertAgendamentoOk(pac, row) ==
  /\ row.procedimento # None
  /\ \E p \in pac : p.id = row.paciente_id

(***************************************************************************)
(* Replies.  Every reply is a record with a kind k.                        *)
(***************************************************************************)
Rep(k) == [k |-> k]

\* nome.split(' ')[0]
PrimeiroNome(nome) == Head(nome)

(***************************************************************************)
(* consultar_paciente_por_telefone                                         *)
(***************************************************************************)
consultar_paciente_por_telefone(pac, telefone) ==
  IF PacientePorTelefone(pac, telefone) # {}
  THEN [k |-> "PacienteEncontrado",
        nome |-> (CHOOSE r \in PacientePorTelefone(pac, telefone) : TRUE).nome]
  ELSE Rep("PacienteNaoCadastrado")

(***************************************************************************)
(* cadastrar_paciente.  A date string is [fmt, data]: fmt "dmy" is         *)
(* DD/MM/YYYY, "ymd" is YYYY-MM-DD, "vazia" the empty string, "ruim"       *)
(* anything else.  F is the set of calls that fail in this request.        *)
(***************************************************************************)
ParseDataNasc(s) ==
  IF s.fmt = "dmy" THEN Some(s.data)
  ELSE IF s.fmt = "ymd" THEN Some(s.data)
  ELSE None

\* Result of an engine: the reply (or raised), and the tables after it.
Res(reply, pac, ag, nq) ==
  [raised |-> FALSE, reply |-> reply, pac |-> pac, ag |-> ag, nq |-> nq]
Raise(pac, ag, nq) ==
  [raised |-> TRUE, reply |-> Rep("Excecao"), pac |-> pac, ag |-> ag, nq |-> nq]

\* cadastrar_paciente without the test of `existente`.
cadastrar_paciente_sem_existente(pac, ag, telefone, nome, dn, F) ==
  IF "eng_sel" \in F THEN Raise(pac, ag, 1)
  ELSE IF dn # None /\ Val(dn).fmt # "vazia" /\ ParseDataNasc(Val(dn)) = None
    THEN Res(Rep("DataNascInvalida"), pac, ag, 1)
  ELSE
    LET novo_paciente == [id |-> NovoId(pac), nome |-> nome,
                          telefone |-> telefone,
                          data_nascimento |-> IF dn = None \/ Val(dn).fmt = "vazia"
                                              THEN None ELSE ParseDataNasc(Val(dn))]
    IN IF "eng_ins" \in F \/ ~InsertPacienteOk(pac, novo_paciente)
       THEN Raise(pac, ag, 2)
       ELSE Res([k |-> "Cadastrado", nome |-> PrimeiroNome(Val(nome))],
                pac \cup {novo_paciente}, ag, 2)

cadastrar_paciente(pac, ag, telefone, nome, dn, F) ==
  IF "eng_sel" \in F THEN Raise(pac, ag, 1)
  ELSE IF PacientePorTelefone(pac, telefone) # {}
    THEN Res(Rep("JaCadastrado"), pac, ag, 1)
  ELSE IF dn # None /\ Val(dn).fmt # "vazia" /\ ParseDataNasc(Val(dn)) = None
    THEN Res(Rep("DataNascInvalida"), pac, ag, 1)
  ELSE
    LET data_nascimento ==
          IF dn = None \/ Val(dn).fmt = "vazia" THEN None
          ELSE ParseDataNasc(Val(dn))
        novo_paciente == [id |-> NovoId(pac), nome |-> nome,
                          telefone |-> telefone,
                          data_nascimento |-> data_nascimento]
    IN IF "eng_ins" \in F \/ ~InsertPacienteOk(pac, novo_paciente)
       THEN Raise(pac, ag, 2)
       ELSE Res([k |-> "Cadastrado", nome |-> PrimeiroNome(Val(nome))],
                pac \cup {novo_paciente}, ag, 2)

(***************************************************************************)
(* consultar_horarios_disponiveis.  The preferred day is [fmt, data] with  *)
(* fmt "ymd", "vazia" or "ruim".                                           *)
(***************************************************************************)
Horizonte == 30

\* range(9, 18) without 12, as minutes of the day ("HH:00").
horarios_base == <<9 * 60, 10 * 60, 11 * 60, 13 * 60, 14 * 60, 15 * 60, 16 * 60, 17 * 60>>

\* The query without the filter on status.
ConsultaDoDia_com_cancelados(ag, inicio_dia_utc, fim_dia_utc) ==
  {a \in ag : a.data_hora >= inicio_dia_utc /\ a.data_hora <= fim_dia_utc}

\* The day's range query: the rows of [inicio, fim] that are not cancelled.
ConsultaDoDia(ag, inicio_dia_utc, fim_dia_utc) ==
  {a \in ag : /\ a.data_hora >= inicio_dia_utc
              /\ a.data_hora <= fim_dia_utc
              /\ a.status # "Cancelado"}

\* The window is the local day, from 00:00 to 23:59:59.999999.
agendamentos_existentes(ag, data_consulta) ==
  ConsultaDoDia(ag, Localize(data_consulta * MinDia),
                Localize(data_consulta * MinDia + (MinDia - 1)))

horarios_ocupados(ag, data_consulta) ==
  {MinutoDe(ParaLocal(a.data_hora)) : a \in agendamentos_existentes(ag, data_consulta)}

Livres(ocupados) == SelectSeq(horarios_base, LAMBDA h : h \notin ocupados)

horarios_disponiveis(ag, data_consulta) == Livres(horarios_ocupados(ag, data_consulta))

\* The loop over range(30) from its i-th turn on; nq counts the queries made.
RECURSIVE Varredura(_, _, _, _)
Varredura(ag, data_inicial, i, nq) ==
  IF i >= Horizonte THEN [reply |-> Rep("SemHorarios"), nq |-> nq]
  ELSE LET data_consulta == data_inicial + i
       IN IF Weekday(data_consulta) >= 5
          THEN Varredura(ag, data_inicial, i + 1, nq)
          ELSE Com(horarios_disponiveis(ag, data_consulta), LAMBDA livres :
                 IF livres # <<>>
                 THEN [reply |-> [k |-> "Horarios", dia |-> data_consulta,
                                  slots |-> livres],
                       nq |-> nq + 1]
                 ELSE Varredura(ag, data_inicial, i + 1, nq + 1))

\* The test with <=, which rejects today.
DataPassada_hoje(data_preferencial, hoje_sp) == data_preferencial <= hoje_sp

DataPassada(data_preferencial, hoje_sp) == data_preferencial < hoje_sp

consultar_horarios_disponiveis(pac, ag, t, dia, F) ==
  LET hoje_sp == HojeSP(t)
      usa_dia == dia # None /\ Val(dia).fmt # "vazia"
  IN IF usa_dia /\ Val(dia).fmt # "ymd"
       THEN Res(Rep("FormatoDiaInvalido"), pac, ag, 0)
     ELSE IF usa_dia /\ DataPassada(Val(dia).data, hoje_sp)
       THEN Res([k |-> "DataPassada", hoje |-> hoje_sp], pac, ag, 0)
     ELSE LET data_inicial == IF usa_dia THEN Val(dia).data ELSE hoje_sp
          IN Com(Varredura(ag, data_inicial, 0, 0), LAMBDA v :
               IF "eng_sel" \in F /\ v.nq > 0 THEN Raise(pac, ag, 1)
               ELSE Res(v.reply, pac, ag, v.nq))

(***************************************************************************)
(* agendar_consulta.  The timestamp is [fmt, dia, min]: fmt "iso" is a     *)
(* naive YYYY-MM-DDTHH:MM:SS, "ruim" a string fromisoformat rejects (or   *)
(* one that carries an offset, which localize rejects).                    *)
(***************************************************************************)
\* agendar_consulta without the test of `paciente`: the row is written for
\* whoever asks.
agendar_consulta_sem_paciente(pac, ag, telefone, data_hora, procedimento, F) ==
  IF "eng_sel" \in F THEN Raise(pac, ag, 1)
  ELSE IF data_hora = None THEN Raise(pac, ag, 1)
  ELSE IF Val(data_hora).fmt # "iso"
    THEN Res(Rep("DataHoraInvalida"), pac, ag, 1)
  ELSE
    LET novo_agendamento ==
          [id |-> NovoId(ag),
           paciente_id |-> IF PacientePorTelefone(pac, telefone) = {} THEN NovoId(pac)
                           ELSE (CHOOSE r \in PacientePorTelefone(pac, telefone) : TRUE).id,
           data_hora |-> Localize(Val(data_hora).dia * MinDia + Val(data_hora).min),
           procedimento |-> procedimento, status |-> "Agendado"]
    IN IF "eng_ins" \in F \/ procedimento = None THEN Raise(pac, ag, 2)
       ELSE Res([k |-> "Agendado", nome |-> "", procedimento |-> Val(procedimento),
                 dia |-> Val(data_hora).dia, min |-> Val(data_hora).min],
                pac, ag \cup {novo_agendamento}, 2)

agendar_consulta(pac, ag, telefone, data_hora, procedimento, F) ==
  IF "eng_sel" \in F THEN Raise(pac, ag, 1)
  ELSE IF PacientePorTelefone(pac, telefone) = {}
    THEN Res(Rep("SemCadastro"), pac, ag, 1)
  ELSE IF data_hora = None THEN Raise(pac, ag, 1)
  ELSE IF Val(data_hora).fmt # "iso"
    THEN Res(Rep("DataHoraInvalida"), pac, ag, 1)
  ELSE
    LET paciente == CHOOSE r \in PacientePorTelefone(pac, telefone) : TRUE
        local == Val(data_hora).dia * MinDia + Val(data_hora).min
        data_hora_utc == Localize(local)
        novo_agendamento == [id |-> NovoId(ag), paciente_id |-> paciente.id,
                             data_hora |-> data_hora_utc,
                             procedimento |-> procedimento,
                             status |-> "Agendado"]
    IN IF "eng_ins" \in F \/ ~InsertAgendamentoOk(pac, novo_agendamento)
       THEN Raise(pac, ag, 2)
       ELSE Res([k |-> "Agendado", nome |-> PrimeiroNome(Val(paciente.nome)),
                 procedimento |-> Val(procedimento),
                 dia |-> Val(data_hora).dia, min |-> Val(data_hora).min],
                pac, ag \cup {novo_agendamento}, 2)

(***************************************************************************)
(* chamar_ia.  The outcome of the HTTP call is an input: "falha" (timeout, *)
(* HTTP error status, transport error), "json_ruim" (content that is not   *)
(* JSON), "nao_objeto" (JSON content that is not an object), or "obj" with *)
(* the decision the model gave.  A decision is [action, data]; data is     *)
(* None for a JSON null, else the record of its fields (None: absent).     *)
(***************************************************************************)
SemCampos ==
  [texto |-> None, nome |-> None, data_nascimento |-> None,
   data_hora |-> None, procedimento |-> None, dia |-> None]

Decisao(action, data) == [action |-> action, data |-> data]

Responder(texto) ==
  Decisao(Some("responder"), Some([SemCampos EXCEPT !.texto = Some(texto)]))

\* chamar_ia without its fallback: a failed call gives an empty decision.
chamar_ia_sem_fallback(llm) ==
  IF llm.t = "obj" THEN llm.dec ELSE Decisao(None, Some(SemCampos))

chamar_ia(llm) ==
  IF llm.t = "obj" THEN llm.dec
  ELSE IF llm.t = "json_ruim" THEN Responder("problema_resposta")
  ELSE Responder("dificuldades_tecnicas")

(***************************************************************************)
(* processar_chat_logic                                                    *)
(***************************************************************************)
Msg(role, content) == [role |-> role, content |-> content]

\* The router without its try: the exception of the engine leaves it.
Roteador_sem_try(pac, ag, t, telefone, resposta_ia, F) ==
  LET action == resposta_ia.action
      d == resposta_ia.data
  IN IF action = Some("responder") THEN
       IF d = None THEN Raise(pac, ag, 0)
       ELSE IF Val(d).texto = None THEN Res(Rep("NaoConsegui"), pac, ag, 0)
       ELSE Res([k |-> "Texto", texto |-> Val(Val(d).texto)], pac, ag, 0)
     ELSE IF action = Some("cadastrar_paciente") THEN
       IF d = None THEN Raise(pac, ag, 0)
       ELSE cadastrar_paciente(pac, ag, telefone, Val(d).nome,
                               Val(d).data_nascimento, F)
     ELSE IF action = Some("agendar_consulta") THEN
       IF d = None THEN Raise(pac, ag, 0)
       ELSE agendar_consulta(pac, ag, telefone, Val(d).data_hora,
                             Val(d).procedimento, F)
     ELSE IF action = Some("consultar_horarios_disponiveis") THEN
       IF d = None THEN Raise(pac, ag, 0)
       ELSE consultar_horarios_disponiveis(pac, ag, t, Val(d).dia, F)
     ELSE Res(Rep("NaoEntendi"), pac, ag, 0)

\* The action router (the try block).  An exception of the engine, or of
\* reading a field of a null data, becomes the internal-error reply.
Roteador(pac, ag, t, telefone, resposta_ia, F) ==
  LET action == resposta_ia.action
      d == resposta_ia.data
      erro == Res(Rep("ErroInterno"), pac, ag, 0)
      e == IF action = Some("responder") THEN
             IF d = None THEN Raise(pac, ag, 0)
             ELSE IF Val(d).texto = None THEN Res(Rep("NaoConsegui"), pac, ag, 0)
             ELSE Res([k |-> "Texto", texto |-> Val(Val(d).texto)], pac, ag, 0)
           ELSE IF action = Some("cadastrar_paciente") THEN
             IF d = None THEN Raise(pac, ag, 0)
             ELSE cadastrar_paciente(pac, ag, telefone, Val(d).nome,
                                     Val(d).data_nascimento, F)
           ELSE IF action = Some("agendar_consulta") THEN
             IF d = None THEN Raise(pac, ag, 0)
             ELSE agendar_consulta(pac, ag, telefone, Val(d).data_hora,
                                   Val(d).procedimento, F)
           ELSE IF action = Some("consultar_horarios_disponiveis") THEN
             IF d = None THEN Raise(pac, ag, 0)
             ELSE consultar_horarios_disponiveis(pac, ag, t, Val(d).dia, F)
           ELSE Res(Rep("NaoEntendi"), pac, ag, 0)
  IN Com(e, LAMBDA r : IF r.raised THEN [erro EXCEPT !.nq = r.nq] ELSE r)

\* The result of the orchestrator: raised (the exception leaves the
\* function), the reply and the history to save, the tables after it, the
\* messages handed to the LLM (None: not called), whether the patient
\* lookup was made, the decision taken and the engine's queries.
processar_chat_logic(pac, ag, t, telefone, mensagem, historico, llm, F) ==
  LET sistema == Msg("system", "prompt")
      usuario == Msg("user", mensagem)
      sem_historico == historico = <<>>
      resultado_consulta == consultar_paciente_por_telefone(pac, telefone)
      messages ==
        IF sem_historico
        THEN <<sistema, Msg("assistant", "tool_call"),
               Msg("tool", resultado_consulta.k), usuario>>
        ELSE <<sistema>> \o historico \o <<usuario>>
      resposta_ia == chamar_ia(llm)
      historico_para_salvar == Append(messages, Msg("assistant", "decisao"))
      falhou(chamou) ==
        [raised |-> TRUE, reply |-> Rep("Excecao"), history |-> <<>>,
         pac |-> pac, ag |-> ag,
         llm_messages |-> IF chamou THEN Some(messages) ELSE None,
         lookup |-> sem_historico, dec |-> None, nq |-> 0,
         ia |-> IF chamou THEN llm.t ELSE "nenhuma"]
  IN IF sem_historico /\ "lookup" \in F THEN falhou(FALSE)
     ELSE IF llm.t = "nao_objeto" THEN falhou(TRUE)
     ELSE Com(Roteador(pac, ag, t, telefone, resposta_ia, F), LAMBDA r :
            [raised |-> r.raised, reply |-> r.reply,
             history |-> IF r.raised THEN <<>> ELSE historico_para_salvar,
             pac |-> r.pac, ag |-> r.ag,
             llm_messages |-> Some(messages),
             lookup |-> sem_historico, dec |-> Some(resposta_ia), nq |-> r.nq,
             ia |-> llm.t])

(***************************************************************************)
(* Bounds and input sets.                                                  *)
(***************************************************************************)
\* Requests that fail at most this many of their calls.
MaxFalhas == 1
\* Appointments booked through the API, beyond the ledger the run starts with.
MaxAgendamentos == 2

\* Phones that send requests; "t0" is a patient registered before the run,
\* who owns the appointments the ledger starts with.
Telefones == {"t1", "t2"}
TelefonesZapi == {"t1"}
Legado == [id |-> 1, nome |-> Some(<<"Zeca", "Reis">>), telefone |-> "t0",
           data_nascimento |-> None]

\* The run starts on Friday 25 at 00:30 UTC: Thursday 24, 21:30 in the clinic.
DiaBase == 24
T0 == (DiaBase + 1) * MinDia + 30
Instantes == {T0, T0 + 30, T0 + 360, T0 + 390}
InstantesChat == {T0, T0 + 360, T0 + 1800}

\* The calls of a request that can fail: the two queries of the self-sent
\* branch, the history query, the patient lookup, the engine's query and
\* insert, the history write, the outbound send.
PontosDeFalha ==
  {"sel_snooze", "upd_snooze", "sel_hist", "lookup", "eng_sel", "eng_ins",
   "save", "send"}
Falhas == {F \in SUBSET PontosDeFalha : Cardinality(F) <= MaxFalhas}
FalhasChat == {F \in SUBSET {"lookup", "eng_sel", "eng_ins"} : Cardinality(F) <= MaxFalhas}

Ana == Some(<<"Ana", "Lima">>)
Campos(nome, dn, dh, proc, dia) ==
  Some([SemCampos EXCEPT !.nome = nome, !.data_nascimento = dn,
                         !.data_hora = dh, !.procedimento = proc, !.dia = dia])
Data(fmt, d) == Some([fmt |-> fmt, data |-> d])
DataHora(fmt, d, m) == Some([fmt |-> fmt, dia |-> d, min |-> m])
Limpeza == Some("Limpeza")

DecisoesCadastrar ==
  {Decisao(Some("cadastrar_paciente"), Campos(n[1], n[2], None, None, None)) :
     n \in {<<Ana, None>>, <<Ana, Data("dmy", 1)>>, <<Ana, Data("ymd", 1)>>,
            <<Ana, Data("ruim", 0)>>, <<Ana, Data("vazia", 0)>>, <<None, None>>}}
  \cup {Decisao(Some("cadastrar_paciente"), None)}

DecisoesAgendar ==
  {Decisao(Some("agendar_consulta"), Campos(None, None, a[1], a[2], None)) :
     a \in {<<None, Limpeza>>, <<DataHora("ruim", 0, 0), Limpeza>>,
            <<DataHora("iso", DiaBase + 1, 9 * 60), Limpeza>>,
            <<DataHora("iso", DiaBase + 4, 17 * 60), Limpeza>>,
            <<DataHora("iso", DiaBase + 1, 9 * 60), None>>}}
  \cup {Decisao(Some("agendar_consulta"), None)}

DecisoesHorarios ==
  {Decisao(Some("consultar_horarios_disponiveis"), Campos(None, None, None, None, d)) :
     d \in {None, Data("ruim", 0), Data("vazia", 0)}
           \cup {Data("ymd", DiaBase + i) : i \in {-1, 0, 1, 2, 3, 4}}}
  \cup {Decisao(Some("consultar_horarios_disponiveis"), None)}

DecisoesOutras ==
  {Responder("ola"), Decisao(Some("responder"), Some(SemCampos)),
   Decisao(Some("responder"), None),
   Decisao(Some("consultar_meus_agendamentos"), Some(SemCampos)),
   Decisao(Some("outra"), Some(SemCampos)), Decisao(None, Some(SemCampos))}

LLM(t, dec) == [t |-> t, dec |-> dec]
FalhasIA == {LLM(t, Decisao(None, None)) : t \in {"falha", "json_ruim", "nao_objeto"}}

RespostasIAChat ==
  FalhasIA \cup {LLM("obj", d) : d \in DecisoesCadastrar \cup DecisoesAgendar
                                       \cup DecisoesHorarios \cup DecisoesOutras}

RespostasIAZapi ==
  FalhasIA \cup {LLM("obj", d) :
     d \in {Responder("ola"), Decisao(Some("outra"), Some(SemCampos)),
            Decisao(Some("cadastrar_paciente"), Campos(Ana, None, None, None, None)),
            Decisao(Some("consultar_horarios_disponiveis"), Some(SemCampos))}}

\* Appointments made through the API (not the ones the run starts with).
Novos(ag) == {a \in ag : a.paciente_id # Legado.id}

(***************************************************************************)
(* The ledgers a run can start with: rows the booking engine stored for    *)
(* the patient "t0" (ids 1..n), some of them cancelled or completed since. *)
(***************************************************************************)
LedgerDe(linhas) ==
  {[id |-> i, paciente_id |-> Legado.id, data_hora |-> Localize(linhas[i][1]),
    procedimento |-> Some("Restauracao"), status |-> linhas[i][2]] :
     i \in 1..Len(linhas)}

DiaCheio(d) == [i \in 1..Len(horarios_base) |-> <<d * MinDia + horarios_base[i], "Agendado">>]

\* Every weekday of d..ate fully booked.
RECURSIVE DiasCheios(_, _)
DiasCheios(d, ate) ==
  IF d > ate THEN <<>>
  ELSE (IF Weekday(d) >= 5 THEN <<>> ELSE DiaCheio(d)) \o DiasCheios(d + 1, ate)

LedgersIniciais ==
  { {},
    LedgerDe(<< <<(DiaBase + 1) * MinDia + 9 * 60, "Agendado">>,
                <<(DiaBase + 1) * MinDia + 10 * 60, "Cancelado">>,
                <<(DiaBase + 1) * MinDia + 11 * 60, "Concluido">>,
                <<DiaBase * MinDia + 13 * 60, "Cancelado">>,
                <<DiaBase * MinDia + 13 * 60, "Agendado">>,
                <<DiaBase * MinDia + 10 * 60 + 30, "Agendado">>,
                <<DiaBase * MinDia + 23 * 60 + 30, "Agendado">> >>),
    LedgerDe(DiasCheios(DiaBase, DiaBase + 1)
             \o SubSeq(DiaCheio(DiaBase + 4), 1, Len(horarios_base) - 1)),
    LedgerDe(DiasCheios(DiaBase, DiaBase + Horizonte)) }

(***************************************************************************)
(* The observable record of a request.                                     *)
(***************************************************************************)
SemRequisicao ==
  [ep |-> "nenhum", t |-> 0, telefone |-> None, F |-> {}, payload |-> None,
   status |-> 0, antes |-> None, snoozed |-> FALSE, conteudo |-> None,
   historico |-> None, rodou |-> FALSE, llm_messages |-> None,
   lookup |-> FALSE, dec |-> None, reply |-> None, enviado |-> None,
   gravou |-> "nada", completo |-> <<>>, nq |-> 0, tinha_cadastro |-> FALSE,
   ia |-> "nenhuma"]

(***************************************************************************)
(* POST /chat                                                              *)
(***************************************************************************)
chat_endpoint(telefone, mensagem, historico, F, r) ==
  /\ Cardinality(Novos(r.ag)) <= MaxAgendamentos
  /\ pacientes' = r.pac
  /\ agendamentos' = r.ag
  /\ last' = [SemRequisicao EXCEPT
                !.ep = "chat", !.t = now, !.telefone = Some(telefone),
                !.F = F, !.status = IF r.raised THEN 500 ELSE 200,
                !.conteudo = Some(mensagem), !.historico = Some(historico),
                !.rodou = TRUE, !.llm_messages = r.llm_messages,
                !.lookup = r.lookup, !.dec = r.dec,
                !.reply = IF r.raised THEN None ELSE Some(r.reply),
                !.nq = r.nq, !.completo = r.history, !.ia = r.ia,
                !.tinha_cadastro = PacientePorTelefone(pacientes, telefone) # {}]
  /\ UNCHANGED <<now, historico_conversas, tarefas>>

(***************************************************************************)
(* POST /whatsapp                                                          *)
(***************************************************************************)
SnoozeMinutos == 30
LimiteHoras == 6
MaxHistorico == 20

\* lista[:20], the first entries instead of the last.
Primeiros(lista, n) == IF Len(lista) <= n THEN lista ELSE SubSeq(lista, 1, n)

\* lista[-20:]
Ultimos(lista, n) ==
  IF Len(lista) <= n THEN lista ELSE SubSeq(lista, Len(lista) - n + 1, Len(lista))

\* A field of the payload: absent, JSON null, or an object whose one key of
\* interest (message, audioUrl) has the value v (None: no such key or empty).
Ausente == [t |-> "ausente", v |-> None]
Nulo == [t |-> "nulo", v |-> None]
Campo(v) == [t |-> "obj", v |-> v]

Corpo(phone, fromMe, text, audio) ==
  [tipo |-> "obj", phone |-> phone, fromMe |-> fromMe, text |-> text, audio |-> audio]

\* The comparison turned around: a deadline that has passed.
EmSnooze_vencido(row, t) == row.snoozed_until # None /\ Val(row.snoozed_until) < t

\* resultado_db["snoozed_until"] and resultado_db["snoozed_until"] > now
EmSnooze(row, t) == row.snoozed_until # None /\ Val(row.snoozed_until) > t

\* The comparison with <=, which keeps a transcript of exactly six hours.
Recente_inclusive(row, t) == t - row.last_updated_at <= LimiteHoras * 60

\* now - resultado_db["last_updated_at"] < timedelta(hours=6)
Recente(row, t) == t - row.last_updated_at < LimiteHoras * 60

\* The text to process: the message of the text field or, without one, the
\* transcription of the audio.  raised: a null field has no .get.
Conteudo(payload, audio_res) ==
  IF payload.text.t = "nulo" THEN [raised |-> TRUE, v |-> None]
  ELSE IF payload.text.v # None THEN [raised |-> FALSE, v |-> payload.text.v]
  ELSE IF payload.audio.t = "nulo" THEN [raised |-> TRUE, v |-> None]
  ELSE IF payload.audio.v # None THEN
    [raised |-> FALSE,
     v |-> IF audio_res = "falha_download" THEN Some("[Erro no download do audio]")
           ELSE IF audio_res = "falha_transcricao" THEN Some("[Erro na transcricao]")
           ELSE Some("oi")]
  ELSE [raised |-> FALSE, v |-> None]

\* The end of the handler, from the result r of the orchestrator on: the
\* reply is appended, the last 20 entries are written, the reply is sent.
ZapiSalvar(hc, numero_contato, row, t, obs, r, F) ==
  LET obs3 == [obs EXCEPT !.rodou = TRUE, !.llm_messages = r.llm_messages,
                 !.lookup = r.lookup, !.dec = r.dec, !.nq = r.nq, !.ia = r.ia]
      mensagem_resposta == r.reply
      historico_para_salvar == Append(r.history, Msg("assistant", "resposta"))
      historico_str == Ultimos(historico_para_salvar, MaxHistorico)
      obs4 == [obs3 EXCEPT !.status = 200, !.reply = Some(mensagem_resposta),
                           !.completo = historico_para_salvar]
      nova == IF row # None
              THEN [Val(row) EXCEPT !.historico = historico_str,
                                    !.last_updated_at = t,
                                    !.snoozed_until = None]
              ELSE [historico |-> historico_str, last_updated_at |-> t,
                    snoozed_until |-> None]
  IN
  IF r.raised THEN [hc |-> hc, pac |-> r.pac, ag |-> r.ag,
                    last |-> [obs3 EXCEPT !.status = 200]]
  ELSE IF "save" \in F THEN [hc |-> hc, pac |-> r.pac, ag |-> r.ag, last |-> obs4]
  ELSE [hc |-> [hc EXCEPT ![numero_contato] = Some(nova)],
        pac |-> r.pac, ag |-> r.ag,
        last |-> [obs4 EXCEPT
                    !.gravou = IF row # None THEN "update" ELSE "insert",
                    !.enviado = IF "send" \in F THEN None ELSE Some(mensagem_resposta)]]

\* The handler from the history query on, for the text c of the message.
ZapiConversa(hc, pac, ag, t, numero_contato, row, obs, c, llm, F) ==
  IF "sel_hist" \in F THEN [hc |-> hc, pac |-> pac, ag |-> ag,
                            last |-> [obs EXCEPT !.status = 200]]
  ELSE IF row # None /\ EmSnooze(Val(row), t)
    THEN [hc |-> hc, pac |-> pac, ag |-> ag,
          last |-> [obs EXCEPT !.status = 200, !.snoozed = TRUE]]
  ELSE
  LET historico_recuperado ==
        IF row # None /\ Recente(Val(row), t) THEN Val(row).historico ELSE <<>>
  IN ZapiSalvar(hc, numero_contato, row, t,
                [obs EXCEPT !.historico = Some(historico_recuperado)],
                processar_chat_logic(pac, ag, t, numero_contato, c,
                                     historico_recuperado, llm, F),
                F)

\* The self-sent branch: the manual takeover.
ZapiFromMe(hc, pac, ag, t, numero_contato, row, obs, F) ==
  LET Fim(status) == [hc |-> hc, pac |-> pac, ag |-> ag,
                      last |-> [obs EXCEPT !.status = status]]
  IN IF "sel_snooze" \in F THEN Fim(500)
     ELSE IF row = None THEN Fim(200)
     ELSE IF "upd_snooze" \in F THEN Fim(500)
     ELSE [hc |-> [hc EXCEPT ![numero_contato] =
                     Some([Val(row) EXCEPT !.snoozed_until = Some(t + SnoozeMinutos)])],
           pac |-> pac, ag |-> ag,
           last |-> [obs EXCEPT !.status = 200, !.gravou = "snooze"]]

\* The handler as a function of the tables: the tables after it and the
\* observable record of the request.
Zapi(hc, pac, ag, t, payload, audio_res, llm, F) ==
  LET obs0 == [SemRequisicao EXCEPT !.ep = "whatsapp", !.t = t, !.F = F,
                                    !.payload = Some(payload)]
      Fim(status, obs) == [hc |-> hc, pac |-> pac, ag |-> ag,
                           last |-> [obs EXCEPT !.status = status]]
  IN
  IF payload.tipo = "invalido" THEN Fim(400, obs0)
  ELSE IF payload.tipo = "nao_objeto" THEN Fim(500, obs0)
  ELSE IF payload.phone = None THEN Fim(200, obs0)
  ELSE
  LET numero_contato == Val(payload.phone)
      row == hc[numero_contato]
      obs1 == [obs0 EXCEPT !.telefone = payload.phone, !.antes = row,
                 !.tinha_cadastro = PacientePorTelefone(pac, numero_contato) # {}]
  IN
  IF payload.fromMe THEN ZapiFromMe(hc, pac, ag, t, numero_contato, row, obs1, F)
  ELSE Com(Conteudo(payload, audio_res), LAMBDA c :
    IF c.raised THEN Fim(500, obs1)
    ELSE IF c.v = None THEN Fim(200, obs1)
    ELSE ZapiConversa(hc, pac, ag, t, numero_contato, row,
                      [obs1 EXCEPT !.conteudo = c.v], Val(c.v), llm, F))

PayloadInvalido ==
  [tipo |-> "invalido", phone |-> None, fromMe |-> FALSE, text |-> Ausente, audio |-> Ausente]
PayloadNaoObjeto ==
  [tipo |-> "nao_objeto", phone |-> None, fromMe |-> FALSE, text |-> Ausente, audio |-> Ausente]

\* Payloads the handler answers before it reads any history.
PayloadsSemConteudo ==
  {PayloadInvalido, PayloadNaoObjeto, Corpo(None, FALSE, Campo(Some("oi")), Ausente)}
  \cup UNION {
    {Corpo(Some(p), TRUE, Campo(Some("atendente")), Ausente),
     Corpo(Some(p), FALSE, Nulo, Ausente),
     Corpo(Some(p), FALSE, Ausente, Ausente),
     Corpo(Some(p), FALSE, Campo(None), Nulo)} : p \in TelefonesZapi}

PayloadsTexto == {Corpo(Some(p), FALSE, Campo(Some("oi")), Ausente) : p \in TelefonesZapi}
PayloadsAudio == {Corpo(Some(p), FALSE, Ausente, Campo(Some("url"))) : p \in TelefonesZapi}

Req(payload, audio_res, llm, F) ==
  [payload |-> payload, audio_res |-> audio_res, llm |-> llm, F |-> F]

\* The requests of a run.  A voice message whose download or transcription
\* fails is followed through a turn whose history write fails, which keeps
\* the error markers out of the stored transcripts.
Requisicoes ==
  {Req(p, "ok", LLM("obj", Responder("ola")), F) :
     p \in PayloadsSemConteudo, F \in Falhas \cap SUBSET {"sel_snooze", "upd_snooze"}}
  \cup {Req(p, "ok", llm, {}) : p \in PayloadsTexto, llm \in RespostasIAZapi}
  \cup {Req(p, "ok", LLM("obj", d), F) :
     p \in PayloadsTexto,
     d \in {Responder("ola"),
            Decisao(Some("cadastrar_paciente"), Campos(Ana, None, None, None, None))},
     F \in Falhas \cap SUBSET {"sel_hist", "lookup", "eng_sel", "eng_ins", "save", "send"}}
  \cup {Req(p, "ok", LLM("obj", Responder("ola")), {}) : p \in PayloadsAudio}
  \cup {Req(p, a, LLM("obj", Responder("ola")), {"save"}) :
     p \in PayloadsAudio, a \in {"falha_download", "falha_transcricao"}}

\* The handler's step: z is what Zapi gives for the request.
receber_mensagem_zapi(z) ==
  /\ Cardinality(Novos(z.ag)) <= MaxAgendamentos
  /\ historico_conversas' = z.hc
  /\ pacientes' = z.pac
  /\ agendamentos' = z.ag
  /\ last' = z.last
  /\ UNCHANGED <<now, tarefas>>

(***************************************************************************)
(* Specifications.                                                         *)
(***************************************************************************)
Whatsapp ==
  \E q \in Requisicoes :
    receber_mensagem_zapi(Zapi(historico_conversas, pacientes, agendamentos, now,
                               q.payload, q.audio_res, q.llm, q.F))

\* The requests to /chat of a run: "t1" with every decision, "t2" with a
\* registration and a booking, and a few decisions with a history or with a
\* failing call.
DecisoesBasicas ==
  {Responder("ola"),
   Decisao(Some("cadastrar_paciente"), Campos(Ana, None, None, None, None)),
   Decisao(Some("agendar_consulta"),
           Campos(None, None, DataHora("iso", DiaBase + 1, 9 * 60), Limpeza, None)),
   Decisao(Some("consultar_horarios_disponiveis"), Some(SemCampos))}

ReqChat(p, h, llm, F) == [telefone |-> p, historico |-> h, llm |-> llm, F |-> F]

RequisicoesChat ==
  {ReqChat("t1", <<>>, llm, {}) : llm \in RespostasIAChat}
  \cup {ReqChat("t2", <<>>, LLM("obj", d), {}) : d \in DecisoesBasicas}
  \cup {ReqChat("t1", h, LLM("obj", d), F) :
          h \in {<<>>, <<Msg("user", "antes")>>}, F \in FalhasChat,
          d \in DecisoesBasicas}

\* A wall-clock time the clinic never showed: half an hour into the hour
\* that the start of daylight saving skipped.
HoraInexistente == DataHora("iso", (DstInicioUtc - 180) \div MinDia, 30)

\* The requests of the runs that exercise the availability search: every
\* form of the preferred day, a failing query, and the registration and the
\* bookings that change what the search finds.
RequisicoesDisp ==
  {ReqChat("t1", <<>>, LLM("obj", d), {}) :
     d \in DecisoesHorarios
           \cup {Decisao(Some("cadastrar_paciente"), Campos(Ana, None, None, None, None)),
                 Decisao(Some("agendar_consulta"),
                         Campos(None, None, DataHora("iso", DiaBase + 1, 9 * 60), Limpeza, None)),
                 Decisao(Some("agendar_consulta"),
                         Campos(None, None, DataHora("iso", DiaBase + 4, 17 * 60), Limpeza, None)),
                 Decisao(Some("agendar_consulta"),
                         Campos(None, None, HoraInexistente, Limpeza, None))}}
  \cup {ReqChat("t1", <<>>,
                LLM("obj", Decisao(Some("consultar_horarios_disponiveis"), Some(SemCampos))),
                {"eng_sel"})}

ChatDisp ==
  \E q \in RequisicoesDisp :
    chat_endpoint(q.telefone, "oi", q.historico, q.F,
                  processar_chat_logic(pacientes, agendamentos, now, q.telefone,
                                       "oi", q.historico, q.llm, q.F))

Chat ==
  \E q \in RequisicoesChat :
    chat_endpoint(q.telefone, "oi", q.historico, q.F,
                  processar_chat_logic(pacientes, agendamentos, now, q.telefone,
                                       "oi", q.historico, q.llm, q.F))

\* Time passes.
Tick ==
  /\ \E t \in Instantes : t > now /\ now' = t
  /\ UNCHANGED <<pacientes, agendamentos, historico_conversas, last, tarefas>>

TickChat ==
  /\ \E t \in InstantesChat : t > now /\ now' = t
  /\ UNCHANGED <<pacientes, agendamentos, historico_conversas, last, tarefas>>

Init ==
  /\ now = T0
  /\ pacientes = {Legado}
  /\ agendamentos = {}
  /\ historico_conversas = [p \in TelefonesZapi |-> None]
  /\ last = SemRequisicao
  /\ tarefas = <<>>

InitDisp ==
  /\ now = T0
  /\ pacientes = {Legado}
  /\ agendamentos \in LedgersIniciais
  /\ historico_conversas = [p \in TelefonesZapi |-> None]
  /\ last = SemRequisicao
  /\ tarefas = <<>>

Next == Whatsapp \/ Tick

NextChat == Chat \/ TickChat

NextDisp == ChatDisp \/ TickChat

\* The webhook under the passing of time.
Spec == Init /\ [][Next]_vars

\* The chat endpoint and the engines behind it.
SpecChat == Init /\ [][NextChat]_vars

\* The availability search, from each of the starting ledgers.
SpecDisp == InitDisp /\ [][NextDisp]_vars

(***************************************************************************)
(* Claims.                                                                 *)
(***************************************************************************)
\* The request l reached the engine of `acao` (the decision named it and
\* carried a data object).
Chamou(l, acao) ==
  /\ l.dec # None
  /\ Val(l.dec).action = Some(acao)
  /\ Val(l.dec).data # None

Dados(l) == Val(Val(l.dec).data)

\* A step that is a request (the clock stands still).
Requisicao == now' = now

UmaLinha(pac, telefone) == Cardinality({r \in pac : r.telefone = telefone}) = 1

\* C1, as claimed: for a phone not yet registered, a registerPatient call
\* followed by a second one with the same phone (any name, any date of
\* birth) gives "already registered" on the second call and leaves exactly
\* one Patient row of that phone, unchanged.  (No call fails in either.)
C1_Original ==
  [][(/\ Requisicao
      /\ Chamou(last, "cadastrar_paciente") /\ ~last.tinha_cadastro /\ last.F = {}
      /\ Chamou(last', "cadastrar_paciente") /\ last'.F = {}
      /\ last'.telefone = last.telefone)
     => (/\ last'.reply = Some(Rep("JaCadastrado"))
         /\ UmaLinha(pacientes', Val(last.telefone))
         /\ pacientes' = pacientes)]_vars

\* C1, amended: when the first registerPatient call for the phone succeeded
\* (it inserted the row), a second call with the same phone, any name and any
\* date of birth, gives "already registered" if its lookup query is answered,
\* and in every case leaves exactly one Patient row of that phone, unchanged.
C1_SegundoCadastro ==
  [][(/\ Requisicao
      /\ Chamou(last, "cadastrar_paciente") /\ ~last.tinha_cadastro
      /\ last.reply # None /\ Val(last.reply).k = "Cadastrado"
      /\ Chamou(last', "cadastrar_paciente")
      /\ last'.telefone = last.telefone)
     => (/\ "eng_sel" \notin last'.F => last'.reply = Some(Rep("JaCadastrado"))
         /\ UmaLinha(pacientes', Val(last.telefone))
         /\ pacientes' = pacientes)]_vars

\* A second registration, with a date of birth no format accepts, was
\* answered "already registered".
C1_Witness ==
  /\ Chamou(last, "cadastrar_paciente")
  /\ last.tinha_cadastro
  /\ Dados(last).data_nascimento = Data("ruim", 0)
  /\ last.reply = Some(Rep("JaCadastrado"))
  /\ UmaLinha(pacientes, Val(last.telefone))

\* C2: bookAppointment for a phone with no Patient row answers
\* PatientNotFound (when its lookup query is answered) and inserts no
\* Appointment row, whatever the timestamp and the procedure; and every
\* Appointment row references an existing Patient.
C2_SemCadastro ==
  /\ [](\A a \in agendamentos : \E p \in pacientes : p.id = a.paciente_id)
  /\ [][(/\ Requisicao
         /\ Chamou(last', "agendar_consulta")
         /\ {r \in pacientes : r.telefone = Val(last'.telefone)} = {})
        => (/\ "eng_sel" \notin last'.F => last'.reply = Some(Rep("SemCadastro"))
            /\ agendamentos' = agendamentos
            /\ pacientes' = pacientes)]_vars

\* A phone without a Patient row asked for a booking, with a well-formed
\* timestamp, while the ledger holds a booking of a registered patient.
C2_Witness ==
  /\ Chamou(last, "agendar_consulta")
  /\ ~last.tinha_cadastro
  /\ Dados(last).data_hora # None /\ Val(Dados(last).data_hora).fmt = "iso"
  /\ last.reply = Some(Rep("SemCadastro"))
  /\ agendamentos # {}

\* The preferred day of an availability request, when it names one.
DiaPedido(l) == Dados(l).dia

TemDia(l) == DiaPedido(l) # None /\ Val(DiaPedido(l)).fmt = "ymd"

SemDia(l) == DiaPedido(l) = None \/ Val(DiaPedido(l)).fmt = "vazia"

\* The start date of the search: the preferred day, or today in the clinic.
Partida(l) == IF TemDia(l) THEN Val(DiaPedido(l)).data ELSE HojeSP(l.t)

\* 09:00 to 17:00 on the hour without 12:00, as minutes of the day.
Grade == <<540, 600, 660, 780, 840, 900, 960, 1020>>

\* A row that is not cancelled and whose local time is h of day d.
Ocupa(a, d, h) == a.status # "Cancelado" /\ ParaLocal(a.data_hora) = d * MinDia + h

LivresEm(d) == SelectSeq(Grade, LAMBDA h : \A a \in agendamentos : ~Ocupa(a, d, h))

\* Day 0 is a Monday.
DiaUtil(d) == d % 7 \notin {5, 6}

DiasComVaga(d0) == {d \in d0..(d0 + 29) : DiaUtil(d) /\ LivresEm(d) # <<>>}

PrimeiroDiaComVaga(d0) == CHOOSE d \in DiasComVaga(d0) : \A e \in DiasComVaga(d0) : d <= e

\* C3: from a start date D0 that is not in the past, findAvailableSlots
\* answers the earliest weekday of D0..D0+29 on which a slot of the template
\* is held by no Appointment that is not cancelled, with exactly the free
\* slots of that day in the order of the template, and NoAvailability when
\* there is no such day.
C3_PrimeiroDiaLivre ==
  (/\ Chamou(last, "consultar_horarios_disponiveis")
   /\ last.F = {}
   /\ SemDia(last) \/ (TemDia(last) /\ Partida(last) >= HojeSP(last.t)))
  => last.reply =
       Some(IF DiasComVaga(Partida(last)) = {} THEN Rep("SemHorarios")
            ELSE [k |-> "Horarios", dia |-> PrimeiroDiaComVaga(Partida(last)),
                  slots |-> LivresEm(PrimeiroDiaComVaga(Partida(last)))])

\* The search passed two full weekdays and a weekend and found the one slot
\* left on the next Monday.
C3_Witness ==
  /\ Chamou(last, "consultar_horarios_disponiveis")
  /\ last.reply # None /\ Val(last.reply).k = "Horarios"
  /\ Val(last.reply).dia >= Partida(last) + 4
  /\ Len(Val(last.reply).slots) = 1
  /\ \E a \in agendamentos : a.status = "Agendado"

\* C4: whatever the preferred date and the ledger, a day that
\* findAvailableSlots answers is never a Saturday or a Sunday.
C4_NuncaFimDeSemana ==
  (/\ Chamou(last, "consultar_horarios_disponiveis")
   /\ last.reply # None /\ Val(last.reply).k = "Horarios")
  => DiaUtil(Val(last.reply).dia)

\* The preferred date was a Saturday or a Sunday and a day was answered.
C4_Witness ==
  /\ Chamou(last, "consultar_horarios_disponiveis")
  /\ TemDia(last) /\ ~DiaUtil(Partida(last))
  /\ last.reply # None /\ Val(last.reply).k = "Horarios"

\* C5: a preferred date before today's date in the clinic's time zone is
\* answered PastDate with no storage query and no slot; a preferred date
\* equal to today is accepted and the search starts from it.
C5_DataPassada ==
  (Chamou(last, "consultar_horarios_disponiveis") /\ TemDia(last))
  => /\ Partida(last) < HojeSP(last.t)
        => /\ last.reply = Some([k |-> "DataPassada", hoje |-> HojeSP(last.t)])
           /\ last.nq = 0
     /\ (Partida(last) = HojeSP(last.t) /\ last.F = {})
        => /\ last.reply # None
           /\ Val(last.reply).k \in {"Horarios", "SemHorarios"}
           /\ last.nq >= 1
           /\ Val(last.reply).k = "Horarios" => Val(last.reply).dia >= Partida(last)

\* Yesterday in the clinic was asked for, at an hour when the UTC date is
\* already tomorrow's.
C5_Witness ==
  /\ Chamou(last, "consultar_horarios_disponiveis")
  /\ TemDia(last)
  /\ Partida(last) = HojeSP(last.t) - 1
  /\ HojeSP(last.t) < DiaDe(last.t)
  /\ last.reply # None /\ Val(last.reply).k = "DataPassada"
  /\ agendamentos # {}

\* The request l is a message of a user that reached the history query: a
\* payload with a phone, not self-sent, with a text to process.
Mensagem(l) == l.ep = "whatsapp" /\ l.conteudo # None

\* The Conversation Record of the phone of l, now and before l.
Registro(l) == historico_conversas[Val(l.telefone)]

Antes(l) == Val(l.antes)

\* Before l the record held a snooze deadline later than the time of l.
SnoozeEmVigor(l) ==
  /\ l.antes # None
  /\ Antes(l).snoozed_until # None
  /\ Val(Antes(l).snoozed_until) > l.t

\* C6: while the snooze deadline of a phone is set and in the future, a
\* message of a user for that phone is dropped: the orchestrator is not
\* invoked, no reply is sent, the Conversation Record is unchanged, and the
\* answer is HTTP 200.
C6_Silencio ==
  (Mensagem(last) /\ SnoozeEmVigor(last))
  => /\ ~last.rodou
     /\ last.llm_messages = None /\ last.dec = None /\ last.nq = 0
     /\ last.reply = None /\ last.enviado = None
     /\ last.gravou = "nada"
     /\ Registro(last) = last.antes
     /\ last.status = 200

\* A message arrived for a phone whose record held a transcript and a
\* deadline still to come.
C6_Witness ==
  /\ Mensagem(last) /\ SnoozeEmVigor(last)
  /\ Antes(last).historico # <<>>
  /\ last.F = {}
  /\ last.status = 200

\* A self-sent payload with a phone, none of whose storage calls fails.
FromMe(l) ==
  /\ l.ep = "whatsapp"
  /\ Val(l.payload).tipo = "obj"
  /\ Val(l.payload).phone # None
  /\ Val(l.payload).fromMe
  /\ l.F = {}

\* C7, as claimed: every self-sent payload for a phone sets the snooze
\* deadline of the phone to now + 30 minutes, whether or not a Conversation
\* Record exists, invokes no orchestrator, sends no reply and leaves the
\* transcript unmodified.
C7_Original ==
  FromMe(last)
  => /\ Registro(last) # None
     /\ Val(Registro(last)).snoozed_until = Some(last.t + 30)
     /\ last.antes # None => Val(Registro(last)).historico = Antes(last).historico
     /\ ~last.rodou /\ last.llm_messages = None /\ last.enviado = None

\* The minutes between the last update of the record and the request.
Decorrido(l) == l.t - Antes(l).last_updated_at

\* A message for a phone that has a record, in a turn that no failure cuts
\* short (no call fails and the LLM answers with an object or not at all).
Turno(l) ==
  /\ Mensagem(l) /\ l.antes # None
  /\ l.F = {}
  /\ ~(l.rodou /\ l.reply = None)

\* The turn of l was handled as one without history: the stored transcript
\* was not handed over, the patient lookup was made and its result put in
\* front of the message, and the row was updated with the new transcript.
TratadoSemHistorico(l) ==
  /\ l.rodou
  /\ l.historico = Some(<<>>)
  /\ l.lookup
  /\ Len(Val(l.llm_messages)) = 4
  /\ Val(l.llm_messages)[3] =
       Msg("tool", IF l.tinha_cadastro THEN "PacienteEncontrado" ELSE "PacienteNaoCadastrado")
  /\ l.gravou = "update"
  /\ Val(Registro(l)).historico = l.completo
  /\ SubSeq(l.completo, 1, 4) = Val(l.llm_messages)
  /\ Val(Registro(l)).last_updated_at = l.t

\* The stored transcript was handed to the orchestrator, without a lookup.
TratadoComHistorico(l) ==
  /\ l.rodou
  /\ l.historico = Some(Antes(l).historico)
  /\ ~l.lookup
  /\ l.gravou = "update"

C9_Original ==
  last.ep = "whatsapp"
  => last.status = (IF Val(last.payload).tipo = "invalido" THEN 400 ELSE 200)

\* The i-th of the last n entries of a list.
DoFim(lista, n, i) == lista[Len(lista) - n + i]

\* C10: a stored transcript has at most 20 entries, and the one a turn
\* writes is the last 20 entries, in their order, of the transcript the turn
\* produced (all of it when it has no more than 20).
C10_Truncado ==
  /\ \A p \in TelefonesZapi :
       historico_conversas[p] # None => Len(Val(historico_conversas[p]).historico) <= 20
  /\ (last.ep = "whatsapp" /\ last.gravou \in {"insert", "update"})
     => LET h == Val(Registro(last)).historico
            n == IF Len(last.completo) < 20 THEN Len(last.completo) ELSE 20
        IN /\ Len(h) = n
           /\ \A i \in 1..n : h[i] = DoFim(last.completo, n, i)

\* A turn produced a transcript of more than 20 entries and wrote it.
C10_Witness ==
  /\ last.ep = "whatsapp"
  /\ last.gravou = "update"
  /\ Len(last.completo) > 20
  /\ Len(Val(Registro(last)).historico) = 20

\* C12, as claimed: a decision whose action is consultar_meus_agendamentos
\* is answered with the list of the patient's future Scheduled appointments,
\* or with a "no upcoming appointments" message, and not as an unknown
\* action.
C12_Original ==
  (last.dec # None /\ Val(last.dec).action = Some("consultar_meus_agendamentos"))
  => /\ last.reply # None
     /\ Val(last.reply).k \in {"MeusAgendamentos", "SemAgendamentos"}
     /\ Val(last.reply).k # "NaoEntendi"

\* The router ran for the request l: the LLM gave a decision.
Despachou(l) == l.ep = "chat" /\ l.dec # None

Acao(l) == Val(l.dec).action

\* The date of birth of a registration is absent, empty, or one that a
\* format parses.
NascimentoAceito(dn) == dn = None \/ Val(dn).fmt \in {"vazia", "dmy", "ymd"}

\* The preferred day lets the search reach its query.
DiaAceito(l) == SemDia(l) \/ (TemDia(l) /\ Partida(l) >= HojeSP(l.t))

\* The action of l raised: the data of the decision is null, a storage call
\* it reached failed, a row it built broke a constraint of its table (a null
\* name, a null procedure), or the timestamp to parse was absent.
ExcecaoNaAcao(l) ==
  \/ /\ Acao(l) \in {Some("responder"), Some("cadastrar_paciente"),
                     Some("agendar_consulta"), Some("consultar_horarios_disponiveis")}
     /\ Val(l.dec).data = None
  \/ /\ Chamou(l, "cadastrar_paciente")
     /\ \/ "eng_sel" \in l.F
        \/ /\ ~l.tinha_cadastro /\ NascimentoAceito(Dados(l).data_nascimento)
           /\ Dados(l).nome = None \/ "eng_ins" \in l.F
  \/ /\ Chamou(l, "agendar_consulta")
     /\ \/ "eng_sel" \in l.F
        \/ /\ l.tinha_cadastro
           /\ \/ Dados(l).data_hora = None
              \/ /\ Val(Dados(l).data_hora).fmt = "iso"
                 /\ Dados(l).procedimento = None \/ "eng_ins" \in l.F
  \/ /\ Chamou(l, "consultar_horarios_disponiveis")
     /\ "eng_sel" \in l.F /\ DiaAceito(l)

\* C13: an exception raised while the dispatched action runs (a failing
\* storage call, a violated constraint, a null data or a missing field of
\* the decision) stays inside the orchestrator, which returns the
\* internal-error reply and the transcript; no dispatched action makes the
\* orchestrator raise to its caller.
C13_ErroInterno ==
  Despachou(last)
  => /\ last.status = 200
     /\ last.reply # None
     /\ last.completo = Append(Val(last.llm_messages), Msg("assistant", "decisao"))
     /\ ExcecaoNaAcao(last) <=> last.reply = Some(Rep("ErroInterno"))

\* A registration without a name broke the NOT NULL column and was answered
\* with the internal-error reply.
C13_Witness ==
  /\ Despachou(last)
  /\ Chamou(last, "cadastrar_paciente")
  /\ Dados(last).nome = None /\ ~last.tinha_cadastro
  /\ last.F = {}
  /\ last.reply = Some(Rep("ErroInterno"))
  /\ last.status = 200

\* The timestamp of a booking is a local YYYY-MM-DDTHH:MM:SS.
Legivel(dh) == dh # None /\ Val(dh).fmt = "iso"

\* C14, as claimed: bookAppointment for a registered phone with a timestamp
\* that cannot be parsed (an absent one included) answers InvalidDateTime
\* and inserts no row; with a parseable timestamp (and a procedure) it
\* inserts exactly one row, Scheduled, of that patient.  (No call fails.)
C14_Original ==
  [][(/\ Requisicao
      /\ Chamou(last', "agendar_consulta")
      /\ last'.F = {}
      /\ {r \in pacientes : r.telefone = Val(last'.telefone)} # {})
     => IF ~Legivel(Dados(last').data_hora)
        THEN /\ last'.reply = Some(Rep("DataHoraInvalida"))
             /\ agendamentos' = agendamentos
        ELSE Dados(last').procedimento # None
             => /\ agendamentos \subseteq agendamentos'
                /\ Cardinality(agendamentos' \ agendamentos) = 1
                /\ \A a \in agendamentos' \ agendamentos :
                     /\ a.status = "Agendado"
                     /\ \E r \in pacientes :
                          r.telefone = Val(last'.telefone) /\ r.id = a.paciente_id]_vars

\* The transcript the orchestrator was handed for the turn of l.
Anterior(l) == Val(l.historico)

\* C17, as claimed: the transcript a processed turn hands back is the prior
\* transcript (empty without history) with exactly the new user turn and one
\* assistant turn appended, and what is stored is its last 20 entries: two
\* more entries per turn until the bound is reached.
C17_Original ==
  (last.ep = "whatsapp" /\ last.gravou \in {"insert", "update"})
  => /\ Len(last.completo) = Len(Anterior(last)) + 2
     /\ SubSeq(last.completo, 1, Len(Anterior(last))) = Anterior(last)
     /\ last.completo[Len(Anterior(last)) + 1] = Msg("user", Val(last.conteudo))
     /\ last.completo[Len(Anterior(last)) + 2].role = "assistant"
     /\ Val(Registro(last)).historico =
          (IF Len(last.completo) <= 20 THEN last.completo
           ELSE SubSeq(last.completo, Len(last.completo) - 19, Len(last.completo)))

\* The local date and time of day of a stored instant.
DiaLocal(a) == DiaDe(ParaLocal(a.data_hora))

HoraLocal(a) == MinutoDe(ParaLocal(a.data_hora))

\* The row that the booking just answered wrote: the newest of the ledger.
Marcado == CHOOSE a \in agendamentos : a.id = Cardinality(agendamentos)

\* C18, as claimed: the instant a successful bookAppointment stores for the
\* local date D and time HH:MM reads back, in the clinic's zone, as D and
\* HH:MM; and a day that findAvailability answers does not list as free a
\* slot that a row not cancelled holds on that local day.
C18_Original ==
  /\ (Chamou(last, "agendar_consulta") /\ last.reply # None
      /\ Val(last.reply).k = "Agendado")
     => /\ DiaLocal(Marcado) = Val(Dados(last).data_hora).dia
        /\ HoraLocal(Marcado) = Val(Dados(last).data_hora).min
  /\ (Chamou(last, "consultar_horarios_disponiveis") /\ last.reply # None
      /\ Val(last.reply).k = "Horarios")
     => \A a \in agendamentos :
          (a.status # "Cancelado" /\ DiaLocal(a) = Val(last.reply).dia)
          => \A i \in 1..Len(Val(last.reply).slots) :
               Val(last.reply).slots[i] # HoraLocal(a)

\* The apology of each failure of the LLM call: the one for an answer that
\* is not JSON, and the one for every other failure.
Desculpa(ia) == IF ia = "json_ruim" THEN "problema_resposta" ELSE "dificuldades_tecnicas"

\* C19: when the LLM call fails (time-out, HTTP error status, transport
\* error, or an answer that is not JSON) the call does not raise: it gives
\* the decision responder with a fixed apology, so the orchestrator runs no
\* engine, the Patient and Appointment tables are unchanged and the reply is
\* the apology.
C19_Fallback ==
  /\ [](last.ia \in {"falha", "json_ruim"}
        => /\ last.status = 200
           /\ last.dec = Some(Responder(Desculpa(last.ia)))
           /\ last.reply = Some([k |-> "Texto", texto |-> Desculpa(last.ia)])
           /\ last.nq = 0)
  /\ [][(Requisicao /\ last'.ia \in {"falha", "json_ruim"})
        => (pacientes' = pacientes /\ agendamentos' = agendamentos)]_vars

\* The call failed in a turn for a phone that had registered and booked.
C19_Witness ==
  /\ last.ia = "falha"
  /\ last.tinha_cadastro
  /\ agendamentos # {}
  /\ last.reply = Some([k |-> "Texto", texto |-> "dificuldades_tecnicas"])

(***************************************************************************)
(* The handlers from one await to the next.  Every handler is a coroutine  *)
(* of one event loop: it runs alone between two awaits, and other handlers *)
(* run while it waits.  A step is the storage call (or the HTTP call) that *)
(* an await waits for, with the code that follows it up to the next await. *)
(* A task keeps what its handler holds in local variables.                 *)
(***************************************************************************)
\* Requests a run starts.
MaxRequisicoes == 4

Procs == {1, 2}

\* A patient registered before the run, besides "t0".
Antiga == [id |-> 2, nome |-> Some(<<"Bia", "Melo">>), telefone |-> "t9",
           data_nascimento |-> None]

\* The text of the n-th message of a run.
MensagemDe(n) == <<"m1", "m2", "m3", "m4", "m5", "m6">>[n]

\* The slot the bookings of these runs ask for: 09:00 of the day after the
\* run starts, in the clinic.
Vaga == [dia |-> DiaBase + 1, min |-> 9 * 60]

\* What the LLM decides for each kind of request.
DecisaoDe(tipo) ==
  IF tipo = "cadastrar"
    THEN Decisao(Some("cadastrar_paciente"), Campos(Ana, None, None, None, None))
  ELSE IF tipo = "agendar"
    THEN Decisao(Some("agendar_consulta"),
                 Campos(None, None, DataHora("iso", Vaga.dia, Vaga.min), Limpeza, None))
  ELSE IF tipo = "horarios"
    THEN Decisao(Some("consultar_horarios_disponiveis"),
                 Campos(None, None, None, None, Data("ymd", Vaga.dia)))
  ELSE Responder("ola")

\* A handler: the request it serves (tipo, telefone, n), where it waits (pc)
\* and its local variables.  status is the HTTP status it answered with,
\* gravou the write of the conversation record it made, enviou whether it
\* sent the reply, and visto the last availability reply that the client of
\* this connection received.  junto: the other handler was running when
\* this one started.
Livre ==
  [tipo |-> "livre", telefone |-> "", n |-> 0, pc |-> "livre", junto |-> FALSE,
   resultado_db |-> None, historico |-> <<>>, messages |-> <<>>,
   data_inicial |-> 0, i |-> 0, paciente |-> None, existente |-> FALSE,
   historico_para_salvar |-> <<>>, reply |-> None, status |-> 0,
   gravou |-> "nada", enviou |-> FALSE, visto |-> None]

\* Requests answered by the router's engines, and requests of the webhook.
Familia(tipo) ==
  IF tipo \in {"cadastrar", "horarios", "agendar"} THEN "chat"
  ELSE IF tipo \in {"mensagem", "fromMe"} THEN "whatsapp"
  ELSE "nenhuma"

Maior(S) == IF S = {} THEN 0 ELSE CHOOSE x \in S : \A y \in S : y <= x

\* The requests started so far.
NumRequisicoes == Maior({tarefas[i].n : i \in Procs})

Passa(i, t) == tarefas' = [tarefas EXCEPT ![i] = t]

Fim(i, t) == Passa(i, [t EXCEPT !.pc = "fim"])

\* A request arrives and its handler starts.  A run keeps to the requests
\* of one family.
Iniciar(i, tipo, telefone) ==
  /\ tarefas[i].pc \in {"livre", "fim"}
  /\ NumRequisicoes < MaxRequisicoes
  /\ \A j \in Procs : Familia(tarefas[j].tipo) \in {"nenhuma", Familia(tipo)}
  /\ Passa(i, [Livre EXCEPT !.tipo = tipo, !.telefone = telefone,
                            !.n = NumRequisicoes + 1,
                            !.junto = \E j \in Procs \ {i} :
                                         tarefas[j].pc \notin {"livre", "fim"},
                            !.visto = tarefas[i].visto,
                            !.pc = IF tipo = "fromMe" THEN "sel_snooze"
                                   ELSE IF tipo = "mensagem" THEN "ler"
                                   ELSE "lookup"])
  /\ UNCHANGED <<now, pacientes, agendamentos, historico_conversas, last>>

\* The messages of a turn that has a history.
MensagensCom(historico, mensagem) ==
  <<Msg("system", "prompt")>> \o historico \o <<Msg("user", mensagem)>>

\* The messages of a turn without history, with the result of the lookup.
MensagensSem(resultado_consulta, mensagem) ==
  <<Msg("system", "prompt"), Msg("assistant", "tool_call"),
    Msg("tool", resultado_consulta.k), Msg("user", mensagem)>>

\* await consultar_paciente_por_telefone(...), on a turn without history.
PassoLookup(i) ==
  /\ tarefas[i].pc = "lookup"
  /\ Passa(i, [tarefas[i] EXCEPT
                 !.messages =
                    MensagensSem(consultar_paciente_por_telefone(pacientes, tarefas[i].telefone),
                                 MensagemDe(tarefas[i].n)),
                 !.pc = "ia"])
  /\ UNCHANGED <<now, pacientes, agendamentos, historico_conversas, last>>

\* The first i at or after j that the loop does not skip (range(30) ends it).
RECURSIVE ProximoIndice(_, _)
ProximoIndice(data_inicial, j) ==
  IF j >= Horizonte THEN Horizonte
  ELSE IF Weekday(data_inicial + j) >= 5 THEN ProximoIndice(data_inicial, j + 1)
  ELSE j

\* await chamar_ia(messages), and the router up to the engine's first
\* await.  A "responder" decision has no engine: the /chat handler answers,
\* the webhook goes on to save the turn.
PassoIA(i) ==
  LET t == tarefas[i]
      resposta_ia == chamar_ia(LLM("obj", DecisaoDe(t.tipo)))
      action == resposta_ia.action
      d == Val(resposta_ia.data)
      t1 == [t EXCEPT !.historico_para_salvar =
                         Append(t.messages, Msg("assistant", "decisao"))]
  IN
  /\ t.pc = "ia"
  /\ IF action = Some("responder") THEN
       IF t.tipo = "mensagem"
       THEN Passa(i, [t1 EXCEPT
                        !.reply = Some([k |-> "Texto", texto |-> Val(d.texto)]),
                        !.historico_para_salvar =
                           Append(t1.historico_para_salvar, Msg("assistant", "resposta")),
                        !.pc = "salvar"])
       ELSE Fim(i, [t1 EXCEPT
                      !.reply = Some([k |-> "Texto", texto |-> Val(d.texto)]),
                      !.status = 200])
     ELSE IF action = Some("cadastrar_paciente") THEN Passa(i, [t1 EXCEPT !.pc = "cad_sel"])
     ELSE IF action = Some("agendar_consulta") THEN Passa(i, [t1 EXCEPT !.pc = "ag_sel"])
     ELSE Passa(i, [t1 EXCEPT
                      !.data_inicial = Val(d.dia).data,
                      !.i = ProximoIndice(Val(d.dia).data, 0),
                      !.pc = "consulta"])
  /\ UNCHANGED <<now, pacientes, agendamentos, historico_conversas, last>>

\* cadastrar_paciente: await database.fetch_one(...), the test of
\* `existente`.
PassoCadSel(i) ==
  LET t == tarefas[i]
      existente == PacientePorTelefone(pacientes, t.telefone) # {}
  IN
  /\ t.pc = "cad_sel"
  /\ IF existente
     THEN Fim(i, [t EXCEPT !.existente = TRUE, !.reply = Some(Rep("JaCadastrado")),
                           !.status = 200])
     ELSE Passa(i, [t EXCEPT !.pc = "cad_ins"])
  /\ UNCHANGED <<now, pacientes, agendamentos, historico_conversas, last>>

\* cadastrar_paciente: await database.execute(insert).  The exception of a
\* rejected insert is caught by the router.
PassoCadIns(i) ==
  LET t == tarefas[i]
      d == Val(DecisaoDe(t.tipo).data)
      novo_paciente == [id |-> NovoId(pacientes), nome |-> d.nome,
                        telefone |-> t.telefone, data_nascimento |-> None]
  IN
  /\ t.pc = "cad_ins"
  /\ IF InsertPacienteOk(pacientes, novo_paciente)
     THEN /\ pacientes' = pacientes \cup {novo_paciente}
          /\ Fim(i, [t EXCEPT !.reply = Some([k |-> "Cadastrado",
                                              nome |-> PrimeiroNome(Val(d.nome))]),
                              !.status = 200])
     ELSE /\ pacientes' = pacientes
          /\ Fim(i, [t EXCEPT !.reply = Some(Rep("ErroInterno")), !.status = 200])
  /\ UNCHANGED <<now, agendamentos, historico_conversas, last>>

\* agendar_consulta: await database.fetch_one(paciente_query).
PassoAgSel(i) ==
  LET t == tarefas[i]
      linhas == PacientePorTelefone(pacientes, t.telefone)
  IN
  /\ t.pc = "ag_sel"
  /\ IF linhas = {}
     THEN Fim(i, [t EXCEPT !.reply = Some(Rep("SemCadastro")), !.status = 200])
     ELSE Passa(i, [t EXCEPT !.paciente = Some(CHOOSE r \in linhas : TRUE),
                             !.pc = "ag_ins"])
  /\ UNCHANGED <<now, pacientes, agendamentos, historico_conversas, last>>

\* agendar_consulta: await database.execute(insert).
PassoAgIns(i) ==
  LET t == tarefas[i]
      d == Val(DecisaoDe(t.tipo).data)
      paciente == Val(t.paciente)
      dh == Val(d.data_hora)
      novo_agendamento == [id |-> NovoId(agendamentos), paciente_id |-> paciente.id,
                           data_hora |-> Localize(dh.dia * MinDia + dh.min),
                           procedimento |-> d.procedimento, status |-> "Agendado"]
  IN
  /\ t.pc = "ag_ins"
  /\ IF InsertAgendamentoOk(pacientes, novo_agendamento)
     THEN /\ agendamentos' = agendamentos \cup {novo_agendamento}
          /\ Fim(i, [t EXCEPT !.reply = Some([k |-> "Agendado",
                                              nome |-> PrimeiroNome(Val(paciente.nome)),
                                              procedimento |-> Val(d.procedimento),
                                              dia |-> dh.dia, min |-> dh.min]),
                              !.status = 200])
     ELSE /\ agendamentos' = agendamentos
          /\ Fim(i, [t EXCEPT !.reply = Some(Rep("ErroInterno")), !.status = 200])
  /\ UNCHANGED <<now, pacientes, historico_conversas, last>>

\* consultar_horarios_disponiveis: await database.fetch_all(query) of the
\* i-th day, and the loop up to the next query.
PassoConsulta(i) ==
  LET t == tarefas[i]
      data_consulta == t.data_inicial + t.i
      livres == horarios_disponiveis(agendamentos, data_consulta)
      proximo == ProximoIndice(t.data_inicial, t.i + 1)
  IN
  /\ t.pc = "consulta"
  /\ IF t.i >= Horizonte
       THEN Fim(i, [t EXCEPT !.reply = Some(Rep("SemHorarios")), !.status = 200])
     ELSE IF livres # <<>>
       THEN Fim(i, [t EXCEPT !.reply = Some([k |-> "Horarios", dia |-> data_consulta,
                                             slots |-> livres]),
                             !.visto = Some([dia |-> data_consulta, slots |-> livres]),
                             !.status = 200])
     ELSE IF proximo >= Horizonte
       THEN Fim(i, [t EXCEPT !.reply = Some(Rep("SemHorarios")), !.status = 200])
     ELSE Passa(i, [t EXCEPT !.i = proximo])
  /\ UNCHANGED <<now, pacientes, agendamentos, historico_conversas, last>>

\* The webhook, a user message: await database.fetch_one(query_select), the
\* snooze test and the staleness test.  With a history the orchestrator
\* goes straight to the LLM.
PassoLer(i) ==
  LET t == tarefas[i]
      resultado_db == historico_conversas[t.telefone]
      historico_recuperado ==
        IF resultado_db # None /\ Recente(Val(resultado_db), now)
        THEN Val(resultado_db).historico ELSE <<>>
      t1 == [t EXCEPT !.resultado_db = resultado_db,
                      !.historico = historico_recuperado]
  IN
  /\ t.pc = "ler"
  /\ IF resultado_db # None /\ EmSnooze(Val(resultado_db), now)
       THEN Fim(i, [t1 EXCEPT !.status = 200])
     ELSE IF historico_recuperado = <<>>
       THEN Passa(i, [t1 EXCEPT !.pc = "lookup"])
     ELSE Passa(i, [t1 EXCEPT
                      !.messages = MensagensCom(historico_recuperado, MensagemDe(t.n)),
                      !.pc = "ia"])
  /\ UNCHANGED <<now, pacientes, agendamentos, historico_conversas, last>>

\* An update that appends to the stored transcript instead of replacing it.
Atualizada_acrescenta(row, historico_str, t) ==
  [row EXCEPT !.historico = row.historico \o historico_str,
              !.last_updated_at = t, !.snoozed_until = None]

\* The row after update().values(historico=..., last_updated_at=func.now(),
\* snoozed_until=None).
Atualizada(row, historico_str, t) ==
  [row EXCEPT !.historico = historico_str, !.last_updated_at = t,
              !.snoozed_until = None]

\* A handler that goes on to send the reply after its write was rejected.
AposRejeicao_envia(t) == [t EXCEPT !.gravou = "rejeitado", !.pc = "enviar"]

\* The exception of the write reaches the except of the handler, which
\* prints it; the handler returns Response(status_code=200).
AposRejeicao(t) == [t EXCEPT !.gravou = "rejeitado", !.status = 200, !.pc = "fim"]

\* await database.execute(query_db): the update when the handler had found
\* a record, the insert when it had found none.  The insert of a phone that
\* has a record by now is rejected, and the handler ends in its except.
PassoSalvar(i) ==
  LET t == tarefas[i]
      atual == historico_conversas[t.telefone]
      historico_str == Ultimos(t.historico_para_salvar, MaxHistorico)
  IN
  /\ t.pc = "salvar"
  /\ IF t.resultado_db # None
       THEN /\ historico_conversas' =
                 [historico_conversas EXCEPT ![t.telefone] =
                    IF atual = None THEN None
                    ELSE Some(Atualizada(Val(atual), historico_str, now))]
            /\ Passa(i, [t EXCEPT !.gravou = "update", !.pc = "enviar"])
     ELSE IF atual = None
       THEN /\ historico_conversas' =
                 [historico_conversas EXCEPT ![t.telefone] =
                    Some([historico |-> historico_str, last_updated_at |-> now,
                          snoozed_until |-> None])]
            /\ Passa(i, [t EXCEPT !.gravou = "insert", !.pc = "enviar"])
     ELSE /\ historico_conversas' = historico_conversas
          /\ Passa(i, AposRejeicao(t))
  /\ UNCHANGED <<now, pacientes, agendamentos, last>>

\* await client.post(zapi_url, ...): the reply leaves.
PassoEnviar(i) ==
  /\ tarefas[i].pc = "enviar"
  /\ Fim(i, [tarefas[i] EXCEPT !.enviou = TRUE, !.status = 200])
  /\ UNCHANGED <<now, pacientes, agendamentos, historico_conversas, last>>

\* The webhook, a self-sent payload: await database.fetch_one(select_query).
PassoSelSnooze(i) ==
  LET t == tarefas[i]
      resultado_db == historico_conversas[t.telefone]
  IN
  /\ t.pc = "sel_snooze"
  /\ IF resultado_db # None
     THEN Passa(i, [t EXCEPT !.resultado_db = resultado_db, !.pc = "upd_snooze"])
     ELSE Fim(i, [t EXCEPT !.status = 200])
  /\ UNCHANGED <<now, pacientes, agendamentos, historico_conversas, last>>

\* await database.execute(update_query): the deadline of the snooze.
PassoUpdSnooze(i) ==
  LET t == tarefas[i]
      atual == historico_conversas[t.telefone]
      snooze_time == now + SnoozeMinutos
  IN
  /\ t.pc = "upd_snooze"
  /\ historico_conversas' =
       [historico_conversas EXCEPT ![t.telefone] =
          IF atual = None THEN None
          ELSE Some([Val(atual) EXCEPT !.snoozed_until = Some(snooze_time)])]
  /\ Fim(i, [t EXCEPT !.gravou = "snooze", !.status = 200])
  /\ UNCHANGED <<now, pacientes, agendamentos, last>>

\* The requests of a run of concurrent handlers.
RequisicoesConc ==
  {[tipo |-> "cadastrar", telefone |-> "t1"],
   [tipo |-> "horarios", telefone |-> "t0"],
   [tipo |-> "agendar", telefone |-> "t0"],
   [tipo |-> "agendar", telefone |-> "t9"],
   [tipo |-> "agendar", telefone |-> "t1"],
   [tipo |-> "mensagem", telefone |-> "t1"],
   [tipo |-> "fromMe", telefone |-> "t1"]}

InitConc ==
  /\ now = T0
  /\ pacientes = {Legado, Antiga}
  /\ agendamentos = {}
  /\ historico_conversas = [p \in TelefonesZapi |-> None]
  /\ last = SemRequisicao
  /\ tarefas = [i \in Procs |-> Livre]

NextConc ==
  \/ \E i \in Procs, q \in RequisicoesConc : Iniciar(i, q.tipo, q.telefone)
  \/ \E i \in Procs : PassoLookup(i)
  \/ \E i \in Procs : PassoIA(i)
  \/ \E i \in Procs : PassoCadSel(i)
  \/ \E i \in Procs : PassoCadIns(i)
  \/ \E i \in Procs : PassoAgSel(i)
  \/ \E i \in Procs : PassoAgIns(i)
  \/ \E i \in Procs : PassoConsulta(i)
  \/ \E i \in Procs : PassoLer(i)
  \/ \E i \in Procs : PassoSalvar(i)
  \/ \E i \in Procs : PassoEnviar(i)
  \/ \E i \in Procs : PassoSelSnooze(i)
  \/ \E i \in Procs : PassoUpdSnooze(i)

\* Two handlers at a time, interleaved at their awaits.
SpecConc == InitConc /\ [][NextConc]_vars

(***************************************************************************)
(* Claims about concurrent handlers.                                       *)
(***************************************************************************)
\* The handler i serves a request of this kind.
Serve(i, tipo) == tarefas[i].tipo = tipo

\* The handler i of a registration has passed the existence check and now
\* waits for its insert.
VaiInserir(i) == Serve(i, "cadastrar") /\ tarefas[i].pc = "cad_ins"

\* The handler i ended with this kind of reply.
Respondeu(i, k) ==
  /\ tarefas[i].pc = "fim"
  /\ tarefas[i].reply # None
  /\ Val(tarefas[i].reply).k = k

\* C11: in every state the patient table holds at most one row per phone
\* number, also when two registrations of one unregistered phone both pass
\* the existence check before either inserts; the insert that comes second
\* is rejected by the table, adds no row and surfaces as a reply (the
\* internal-error reply, answered with status 200).
C11_UmaLinhaPorTelefone ==
  /\ [](\A r1, r2 \in pacientes : r1.telefone = r2.telefone => r1 = r2)
  /\ [][\A i \in Procs :
          (VaiInserir(i) /\ tarefas'[i].pc = "fim")
          => IF PacientePorTelefone(pacientes, tarefas[i].telefone) # {}
             THEN /\ pacientes' = pacientes
                  /\ tarefas'[i].reply = Some(Rep("ErroInterno"))
                  /\ tarefas'[i].status = 200
             ELSE /\ UmaLinha(pacientes', tarefas[i].telefone)
                  /\ Val(tarefas'[i].reply).k = "Cadastrado"]_vars

\* Both registrations passed the existence check; one was answered with the
\* registration, the other with the internal error, and one row is there.
C11_Witness ==
  /\ \A i \in Procs : Serve(i, "cadastrar") /\ ~tarefas[i].existente
  /\ tarefas[1].telefone = tarefas[2].telefone
  /\ \E i, j \in Procs : Respondeu(i, "Cadastrado") /\ Respondeu(j, "ErroInterno")
  /\ UmaLinha(pacientes, tarefas[1].telefone)

\* The instant of the slot that the bookings ask for, as it is stored.
VagaUtc == Localize(Vaga.dia * MinDia + Vaga.min)

\* The rows of the ledger that hold the slot.
NaVaga(ag) == {a \in ag : a.data_hora = VagaUtc /\ a.status = "Agendado"}

\* The client of connection i was told that the slot is free.
ViuLivre(i) ==
  /\ tarefas[i].visto # None
  /\ Val(tarefas[i].visto).dia = Vaga.dia
  /\ \E k \in 1..Len(Val(tarefas[i].visto).slots) : Val(tarefas[i].visto).slots[k] = Vaga.min

\* C15: booking makes no occupancy check.  The insert of a booking adds one
\* Scheduled row at the instant asked for and is answered with the
\* confirmation, whatever rows the ledger already holds at that instant, of
\* the same patient or of another.
C15_SemVerificacao ==
  [][\A i \in Procs :
       (Serve(i, "agendar") /\ tarefas[i].pc = "ag_ins" /\ tarefas'[i].pc = "fim")
       => /\ \E a \in agendamentos' \ agendamentos :
               /\ agendamentos' = agendamentos \cup {a}
               /\ a.data_hora = VagaUtc
               /\ a.status = "Agendado"
               /\ a.paciente_id = Val(tarefas[i].paciente).id
          /\ Cardinality(NaVaga(agendamentos')) = Cardinality(NaVaga(agendamentos)) + 1
          /\ Val(tarefas'[i].reply).k = "Agendado"]_vars

\* Two clients saw the slot free, their bookings ran interleaved, both were
\* confirmed, and the ledger holds two Scheduled rows of the same instant,
\* of two patients.
C15_Witness ==
  /\ \A i \in Procs : Serve(i, "agendar") /\ ViuLivre(i) /\ Respondeu(i, "Agendado")
  /\ \E i \in Procs : tarefas[i].junto
  /\ \E a, b \in NaVaga(agendamentos) : a.paciente_id # b.paciente_id

\* The transcript holds the message.
Contem(historico, m) == \E k \in 1..Len(historico) : historico[k] = m

\* The user turn of the message that handler i serves.
TurnoDe(i) == Msg("user", MensagemDe(tarefas[i].n))

\* Handler i served a message of the phone, found a record and wrote its
\* update.
Atualizou(i, telefone) ==
  /\ Serve(i, "mensagem")
  /\ tarefas[i].telefone = telefone
  /\ tarefas[i].resultado_db # None
  /\ tarefas[i].gravou = "update"

\* C16: when two handlers of messages of one phone loaded the same
\* conversation record (each before the other saved) and both wrote their
\* update, the stored transcript is the one that one of them built from the
\* loaded state: it holds the turn of one of the two messages and not the
\* turn of the other, and both messages were sent their reply.
C16_AtualizacaoPerdida ==
  \A p \in TelefonesZapi :
    (/\ Atualizou(1, p) /\ Atualizou(2, p)
     /\ tarefas[1].resultado_db = tarefas[2].resultado_db
     /\ tarefas[1].pc = "fim" /\ tarefas[2].pc = "fim")
    => /\ tarefas[1].enviou /\ tarefas[2].enviou
       /\ \E i \in Procs :
            /\ Val(historico_conversas[p]).historico =
                 Ultimos(tarefas[i].historico_para_salvar, MaxHistorico)
            /\ tarefas[i].historico_para_salvar =
                 MensagensCom(Val(tarefas[i].resultado_db).historico, MensagemDe(tarefas[i].n))
                 \o <<Msg("assistant", "decisao"), Msg("assistant", "resposta")>>
       /\ Contem(Val(historico_conversas[p]).historico, TurnoDe(1))
          # Contem(Val(historico_conversas[p]).historico, TurnoDe(2))

\* Two messages of one phone found the same record, both updated it and
\* both were answered; the record holds the turn of one of them.
C16_Witness ==
  /\ Atualizou(1, "t1") /\ Atualizou(2, "t1")
  /\ tarefas[1].resultado_db = tarefas[2].resultado_db
  /\ tarefas[1].enviou /\ tarefas[2].enviou
  /\ tarefas[1].pc = "fim" /\ tarefas[2].pc = "fim"
  /\ Contem(Val(historico_conversas["t1"]).historico, TurnoDe(2))
  /\ ~Contem(Val(historico_conversas["t1"]).historico, TurnoDe(1))

\* The conversation record of the phone is under a snooze whose deadline
\* lies ahead.
Silenciado(hc, p, t) == hc[p] # None /\ EmSnooze(Val(hc[p]), t)

\* C20: once a self-sent payload has set the snooze of a phone, the snooze
\* stays in force until its deadline under every interleaving with user
\* messages of that phone: while the deadline lies ahead no step clears the
\* deadline or moves it back, and no step writes a transcript for the phone.
C20_Original ==
  [][\A p \in TelefonesZapi :
       Silenciado(historico_conversas, p, now)
       => /\ Silenciado(historico_conversas', p, now')
          /\ Val(Val(historico_conversas'[p]).snoozed_until)
               >= Val(Val(historico_conversas[p]).snoozed_until)
          /\ Val(historico_conversas'[p]).historico
               = Val(historico_conversas[p]).historico]_vars

\* Handler i serves a message of the phone and had found no record of it,
\* so that its write is the insert.
EscolheuInsert(i, telefone) ==
  /\ Serve(i, "mensagem")
  /\ tarefas[i].telefone = telefone
  /\ tarefas[i].resultado_db = None

\* C21: in the webhook the reply of a message is sent only after the write
\* of the conversation record for that message has succeeded.  A handler
\* that waits to send, or has sent, has made its write; a handler whose
\* insert meets a record that another message has created by then is
\* rejected, leaves the record as it is, sends nothing and answers 200; and
\* while the handler of that other message is still at hand the record
\* holds the transcript that it wrote.
C21_EnviaDepoisDeGravar ==
  /\ [](\A i \in Procs :
          Serve(i, "mensagem")
          => /\ (tarefas[i].pc = "enviar" \/ tarefas[i].enviou)
                  => tarefas[i].gravou \in {"insert", "update"}
             /\ tarefas[i].gravou = "rejeitado"
                  => /\ tarefas[i].pc = "fim"
                     /\ ~tarefas[i].enviou
                     /\ tarefas[i].status = 200
                     /\ \A j \in Procs \ {i} :
                          (EscolheuInsert(j, tarefas[i].telefone) /\ tarefas[j].gravou = "insert")
                          => Val(historico_conversas[tarefas[i].telefone]).historico
                               = Ultimos(tarefas[j].historico_para_salvar, MaxHistorico))
  /\ [][\A i \in Procs :
          (/\ EscolheuInsert(i, tarefas[i].telefone)
           /\ tarefas[i].pc = "salvar"
           /\ tarefas'[i] # tarefas[i]
           /\ historico_conversas[tarefas[i].telefone] # None)
          => /\ historico_conversas' = historico_conversas
             /\ tarefas'[i].gravou = "rejeitado"
             /\ tarefas'[i].pc = "fim"
             /\ ~tarefas'[i].enviou
             /\ tarefas'[i].status = 200]_vars

\* Two first messages of a new phone both chose the insert: one wrote the
\* record and was sent its reply, the other was rejected, was sent nothing
\* and was answered 200, and the record holds the turn of the first only.
C21_Witness ==
  /\ EscolheuInsert(1, "t1") /\ EscolheuInsert(2, "t1")
  /\ tarefas[1].pc = "fim" /\ tarefas[2].pc = "fim"
  /\ tarefas[1].gravou = "insert" /\ tarefas[1].enviou
  /\ tarefas[2].gravou = "rejeitado" /\ ~tarefas[2].enviou /\ tarefas[2].status = 200
  /\ Contem(Val(historico_conversas["t1"]).historico, TurnoDe(1))
  /\ ~Contem(Val(historico_conversas["t1"]).historico, TurnoDe(2))

====
